---- MODULE Spec2Model ----
(***************************************************************************)
(* Transaction engine of the PDV3 backend: sale creation with stock        *)
(* depletion (app/routers/vendas.py) and debt payments                     *)
(* (app/routers/dividas.py), over a relational store with one transaction  *)
(* per request session (READ COMMITTED, row locks taken by UPDATE, a       *)
(* primary key on vendas.id).                                              *)
(*                                                                         *)
(* Stock amounts are integers in units of 1e-9 (the tolerance of the stock *)
(* check), so one whole unit of stock is Escala model units.  Money is in  *)
(* cents (the tolerance of the settlement check is one cent).              *)
(***************************************************************************)
EXTENDS Integers, Sequences, FiniteSets, TLC

\* Python's None for a number or a flag: an optional value is <<>> or <<v>>.
\* A missing string is the empty string (the code tests strings for truth).
None == <<>>
Some(v) == <<v>>

\* Model units per 1.0 of stock (1 / 1e-9).
Escala == 1000000000

\* The literal 1e-9 of the stock check, in model units.
EpsEstoque == 1

(***************************************************************************)
(* Catalog (table produtos): the columns criar_venda reads.  Text columns  *)
(* are sequences of characters.                                            *)
(***************************************************************************)
Catalogo ==
  [ pA |-> [ nome |-> <<"A","r","r","o","z">>, codigo |-> <<"A","1">>,
             categoria_id |-> Some(1), venda_por_peso |-> FALSE,
             taxa_iva |-> 15 ],
    pB |-> [ nome |-> <<"C","a","r","n","e">>, codigo |-> <<"C","2">>,
             categoria_id |-> Some(2), venda_por_peso |-> TRUE,
             taxa_iva |-> 0 ],
    pS |-> [ nome |-> <<"C","o","p","i","a">>, codigo |-> <<" ","S","R","V","1">>,
             categoria_id |-> None, venda_por_peso |-> FALSE,
             taxa_iva |-> 0 ],
    pI |-> [ nome |-> <<"I","m","p","r","e","s","s","a","o"," ","A","4">>,
             codigo |-> <<"I","1">>,
             categoria_id |-> Some(3), venda_por_peso |-> TRUE,
             taxa_iva |-> 15 ],
    pG |-> [ nome |-> <<"B","a","n","n","e","r">>, codigo |-> <<"G","1">>,
             categoria_id |-> Some(14), venda_por_peso |-> FALSE,
             taxa_iva |-> 0 ],
    pN |-> [ nome |-> <<"F","r","e","t","e">>, codigo |-> <<"F","1">>,
             categoria_id |-> Some(3), venda_por_peso |-> FALSE,
             taxa_iva |-> 0 ],
    pC |-> [ nome |-> <<"C","a","b","o">>, codigo |-> <<"C","3">>,
             categoria_id |-> Some(1), venda_por_peso |-> FALSE,
             taxa_iva |-> 15 ] ]

Produtos == DOMAIN Catalogo

\* Stock of each product when the store is opened.
EstoqueInicial ==
  [ pA |-> Escala, pB |-> Escala, pS |-> 0, pI |-> 0, pG |-> 0, pN |-> Escala,
    pC |-> 2 * Escala ]

\* Column produtos.preco_custo (cents) when the store is opened.
PrecoCustoInicial ==
  [ pA |-> 700, pB |-> 900, pS |-> 0, pI |-> 50, pG |-> 0, pN |-> 0,
    pC |-> 300 ]

\* The stock-tracked flag the product lookup returns with a product.
ControlaEstoque(p) == p \notin {"pS", "pI", "pG", "pN"}

\* Strings that uuid.UUID() accepts.
UuidsVenda == {"u1", "u2"}
UuidsGerados == {"g1"}
UuidsProduto == Produtos \cup {"pX"}
UuidsDivida == {"d1", "d2", "d9"}
UuidValido(v) ==
  v \in UuidsVenda \cup UuidsGerados \cup UuidsProduto \cup UuidsDivida

Sessoes == {"s1", "s2"}

(***************************************************************************)
(* str.strip().lower(), str.startswith and the substring test              *)
(***************************************************************************)
LowerChar(c) ==
  CASE c = "A" -> "a" [] c = "C" -> "c" [] c = "S" -> "s" [] c = "R" -> "r"
    [] c = "V" -> "v" [] c = "E" -> "e" [] c = "I" -> "i" [] c = "M" -> "m"
    [] c = "P" -> "p" [] c = "B" -> "b" [] c = "F" -> "f" [] c = "G" -> "g"
    [] OTHER -> c

Lower(t) == [k \in 1..Len(t) |-> LowerChar(t[k])]

RECURSIVE StripL(_)
StripL(t) == IF t # <<>> /\ Head(t) = " " THEN StripL(Tail(t)) ELSE t

RECURSIVE StripR(_)
StripR(t) ==
  IF t # <<>> /\ t[Len(t)] = " " THEN StripR(SubSeq(t, 1, Len(t) - 1)) ELSE t

Strip(t) == StripR(StripL(t))

StartsWith(t, pre) == Len(t) >= Len(pre) /\ SubSeq(t, 1, Len(pre)) = pre

Contains(t, sub) ==
  \E k \in 1..(Len(t) + 1) :
    k + Len(sub) - 1 <= Len(t) /\ SubSeq(t, k, k + Len(sub) - 1) = sub

CategoriasServico == {10, 14, 15}

\* A classification under which every product depletes stock.
IsServicoNunca(prod) == FALSE

\* is_servico of criar_venda for catalog row prod.
IsServico(prod) ==
  LET nome_prod == Lower(Strip(prod.nome))
      codigo_prod == Lower(Strip(prod.codigo))
  IN \/ StartsWith(codigo_prod, <<"s","r","v">>)
     \/ StartsWith(codigo_prod, <<"s","e","r","v">>)
     \/ Contains(nome_prod, <<"s","e","r","v","i">>)
     \/ Contains(nome_prod, <<"i","m","p","r","e","s","s">>)
     \/ (prod.categoria_id # None /\ prod.categoria_id[1] \in CategoriasServico)

Max(a, b) == IF a >= b THEN a ELSE b

\* The quantity as sent, without a minimum.
QuantidadeSemMinimo(item_data) == item_data.quantidade

\* quantidade = max(1, int(item_data.quantidade or 0))
Quantidade(item_data) == Max(1, item_data.quantidade)

\* delta of a stock-tracked line: the weight for a product sold by weight
\* with weight > 0, otherwise the quantity.
Delta(prod, item_data) ==
  IF prod.venda_por_peso /\ item_data.peso_kg > 0
    THEN item_data.peso_kg
    ELSE Quantidade(item_data) * Escala

\* The stock check with its operands exchanged.
EstoqueInsuficienteInvertido(estoque_atual, delta) ==
  delta < estoque_atual - EpsEstoque

\* A stock check that only rejects a product with nothing left.
EstoqueInsuficienteSoZerado(estoque_atual, delta) == estoque_atual <= 0

\* The stock check: estoque_atual < (delta - 1e-9) rejects the line.
EstoqueInsuficiente(estoque_atual, delta) == estoque_atual < delta - EpsEstoque


(***************************************************************************)
(* Requests.  An item line is ItemVendaCreate, a request is VendaCreate.   *)
(***************************************************************************)
Linha(pid, q, peso) ==
  [ produto_id |-> pid, quantidade |-> q, peso_kg |-> peso,
    preco_unitario |-> 1150, subtotal |-> 1150 * Max(1, q) ]

Meio == Escala \div 2

LA1 == Linha("pA", 1, 0)
LA2 == Linha("pA", 2, 0)
LB5 == Linha("pB", 1, Meio)
LBe == Linha("pB", 1, Meio + EpsEstoque)
LS9 == Linha("pS", 9, 0)
LX1 == Linha("pX", 1, 0)
Lbad == Linha("nao-e-uuid", 1, 0)

VendaCreate(u, itens) ==
  [ uuid |-> u, itens |-> itens, usuario_id |-> "", cliente_id |-> "",
    total |-> 1150, desconto |-> None, aplicar_iva |-> TRUE,
    forma_pagamento |-> "Dinheiro", observacoes |-> "" ]

\* The sale requests explored.
Requisicoes ==
  { VendaCreate("u1", <<LA1>>),
    VendaCreate("u1", <<LB5, LBe>>),
    VendaCreate("u1", <<LB5, LA1>>),
    VendaCreate("u1", <<LA1, LA1>>),
    VendaCreate("u2", <<LA1, LB5>>),
    VendaCreate("u2", <<LA2>>),
    VendaCreate("u2", <<LBe>>),
    VendaCreate("u2", <<LA1, LX1>>),
    VendaCreate("u2", <<LB5, Lbad>>),
    VendaCreate("", <<LS9>>),
    VendaCreate("nao-e-uuid", <<>>) }

\* Bodies of atualizar_venda (VendaUpdate); None is a field not sent.
VendaUpdate(total, forma, cancelada) ==
  [ usuario_id |-> None, cliente_id |-> None, total |-> total, desconto |-> None,
    forma_pagamento |-> forma, observacoes |-> None, cancelada |-> cancelada ]

Atualizacoes ==
  { VendaUpdate(None, None, Some(TRUE)), VendaUpdate(None, None, Some(FALSE)) }

IdsVenda == UuidsVenda \cup UuidsGerados

\* The ids the store gives to new debts.
IdsDivida == {"d1", "d2"}

\* The ids (uuid4) of the debts a batch sync creates.
IdsSync == {"d3", "d4", "d5"}

VARIABLES
  vendas,       \* table vendas, committed rows: a function from the ids present
  itens_venda,  \* table itens_venda, committed rows: venda id -> sequence of rows
  estoque,      \* column produtos.estoque, committed: product id -> amount
  sess,         \* the open criar_venda request of each session
  resposta,     \* the response of the request that ended last
  dividas,      \* table dividas, committed rows: a function from the ids present
  itens_divida, \* table itens_divida, committed rows: divida id -> sequence of rows
  pagamentos,   \* table pagamentos_divida, committed rows in insertion order
  dsess,        \* the open registrar_pagamento_divida request of each session
  preco_custo,  \* column produtos.preco_custo, committed: product id -> cents
  evento,       \* the broadcast the request that ended last attempted, if any
  canal_ok,     \* the realtime manager delivers (TRUE) or its broadcast raises
  serial_ok,    \* VendaResponse.model_validate accepts the sale (TRUE) or raises
  assinante     \* one subscriber of the realtime manager and what it received

varsVendas == <<vendas, itens_venda, estoque, sess>>
varsDividas == <<dividas, itens_divida, pagamentos, dsess>>
vars ==
  <<vendas, itens_venda, estoque, sess, resposta, dividas, itens_divida,
    pagamentos, dsess, preco_custo, evento, canal_ok, serial_ok, assinante>>

PagamentoLivre ==
  [ pc |-> "idle", divida_id |-> "", valor |-> 0, forma_pagamento |-> "",
    lido |-> [valor_pago |-> 0, valor_total |-> 0, status |-> ""] ]

SessaoLivre ==
  [ pc |-> "idle", req |-> VendaCreate("", <<>>), venda_uuid |-> "", i |-> 0,
    novos_itens |-> <<>>, mapa |-> <<>>, custos |-> <<>>,
    sujo |-> {}, gravado |-> {}, inseriu |-> FALSE ]

Resposta(status, detalhe, corpo) ==
  [ status |-> status, detalhe |-> detalhe, corpo |-> corpo ]

\* await realtime_manager.broadcast(tipo, {...}): the attempt to publish the
\* event of sale id and whether the manager delivered it.
Broadcast(tipo, id, entregue) ==
  Some([tipo |-> tipo, id |-> id, entregue |-> entregue])

\* A broadcast of cancelar_venda placed before the lookup of the sale.
EventoDoCancelamentoSemBusca(achou, id, entregue) ==
  Broadcast("venda.cancelled", id, entregue)

\* cancelar_venda answers 404 before it reaches the broadcast when the
\* sale is not found after the commit.
EventoDoCancelamento(achou, id, entregue) ==
  IF achou THEN Broadcast("venda.cancelled", id, entregue) ELSE None

\* A handler that lets the exception of the broadcast reach its caller.
AposBroadcastPropaga(resp, entregue) ==
  IF entregue THEN resp ELSE Resposta(500, "erro", None)

\* try: await broadcast(...) / except Exception: pass, then the return: the
\* response is the same whether or not the broadcast raised.
AposBroadcast(resp, entregue) == resp

\* Created events counted per sale id at the subscriber.
MaxCriadas == 2

\* No subscriber is connected when the server starts.
SemAssinante ==
  [ conectado |-> FALSE, criadas |-> [id \in IdsVenda |-> 0] ]

\* The subscriber after the broadcast of the created event of sale id: a
\* connected subscriber receives what the manager delivers.
Recebe(a, id, entregue) ==
  IF a.conectado /\ entregue /\ a.criadas[id] < MaxCriadas
    THEN [a EXCEPT !.criadas[id] = @ + 1]
    ELSE a

Init ==
  /\ vendas = <<>>
  /\ itens_venda = [v \in IdsVenda |-> <<>>]
  /\ estoque = EstoqueInicial
  /\ sess = [s \in Sessoes |-> SessaoLivre]
  /\ resposta = Resposta(0, "", None)
  /\ dividas = <<>>
  /\ itens_divida = [d \in IdsDivida \cup IdsSync |-> <<>>]
  /\ pagamentos = <<>>
  /\ dsess = [s \in Sessoes |-> PagamentoLivre]
  /\ preco_custo = PrecoCustoInicial
  /\ evento = None
  /\ canal_ok = TRUE
  /\ serial_ok = TRUE
  /\ assinante = SemAssinante

\* The hydrated sale (selectinload of its items) as the response carries it.
Hidratada(id, linha, itens) == [ id |-> id, venda |-> linha, itens |-> itens ]

\* An error path that ends the request without undoing the stock already
\* written by the session.
RollbackSemDesfazer(s, status, detalhe) ==
  /\ sess' = [sess EXCEPT ![s] = SessaoLivre]
  /\ resposta' = Resposta(status, detalhe, None)
  /\ evento' = None
  /\ estoque' = [p \in Produtos |->
                   IF p \in sess[s].gravado \cup sess[s].sujo
                     THEN sess[s].mapa[p] ELSE estoque[p]]
  /\ UNCHANGED <<vendas, itens_venda, varsDividas, preco_custo, canal_ok, serial_ok, assinante>>

\* db.rollback() and the error response: every pending write of the session
\* is discarded and its locks are released.
Rollback(s, status, detalhe) ==
  /\ sess' = [sess EXCEPT ![s] = SessaoLivre]
  /\ resposta' = Resposta(status, detalhe, None)
  /\ evento' = None
  /\ UNCHANGED <<vendas, itens_venda, estoque, varsDividas, preco_custo, canal_ok, serial_ok, assinante>>


\* uuid.UUID(v) where a failure leaves None (cliente_id, usuario_id).
ParseUuid(v) == IF v # "" /\ UuidValido(v) THEN v ELSE ""

\* uuid.uuid4(): an id no row and no open request carries.
UuidsNovos ==
  { g \in UuidsGerados :
      g \notin DOMAIN vendas /\ \A t \in Sessoes : sess[t].venda_uuid # g }

\* venda_uuid of criar_venda: the request's uuid when it parses, else uuid4().
VendaUuids(req) ==
  IF req.uuid # "" /\ UuidValido(req.uuid) THEN {req.uuid} ELSE UuidsNovos

\* The Venda row criar_venda builds.
NovaVenda(req) ==
  [ usuario_id |-> ParseUuid(req.usuario_id),
    cliente_id |-> ParseUuid(req.cliente_id),
    total |-> req.total,
    desconto |-> IF req.desconto = None THEN 0 ELSE req.desconto[1],
    forma_pagamento |-> req.forma_pagamento,
    observacoes |-> req.observacoes,
    cancelada |-> FALSE ]

\* getattr(item_data, 'preco_custo_unitario', 0.0) or 0.0: the cost the
\* parsed line carries, 0 when the parsed line has no such attribute.
CustoEnviado(item_data) ==
  IF "preco_custo_unitario" \in DOMAIN item_data
    THEN item_data.preco_custo_unitario ELSE 0

\* custo_unit: the cost the line carries when above 1e-9 (no cent amount is
\* between 0 and 1e-9), else the cost of the product row.
CustoUnit(item_data, custo_produto) ==
  IF CustoEnviado(item_data) <= 0 THEN custo_produto
                                  ELSE CustoEnviado(item_data)

\* taxa_iva of the line: the product's rate, 0 when the sale is "Sem IVA".
TaxaIva(produto_db, aplicar_iva) ==
  IF ~aplicar_iva THEN 0 ELSE produto_db.taxa_iva

\* A tax computed on top of the subtotal, subtotal * taxa / 100.
ValorIvaPorFora(subtotal, taxa) == (subtotal * taxa) \div 100

\* valor_iva: the tax contained in a tax-inclusive subtotal, which is
\* subtotal - subtotal / (1 + taxa / 100) when the rate is positive.
ValorIva(subtotal, taxa) ==
  IF taxa > 0 THEN subtotal - (subtotal * 100) \div (100 + taxa) ELSE 0

\* base_iva: the subtotal without the tax it contains.
BaseIva(subtotal, taxa) ==
  IF taxa > 0 THEN (subtotal * 100) \div (100 + taxa) ELSE subtotal

\* The ItemVenda row criar_venda builds for one line.
NovoItem(venda_id, item_data, produto_db, custo_produto, aplicar_iva) ==
  LET taxa_iva == TaxaIva(produto_db, aplicar_iva)
  IN [ venda_id |-> venda_id, produto_id |-> item_data.produto_id,
       quantidade |-> Quantidade(item_data), peso_kg |-> item_data.peso_kg,
       preco_unitario |-> item_data.preco_unitario,
       subtotal |-> item_data.subtotal,
       preco_custo_unitario |-> CustoUnit(item_data, custo_produto),
       taxa_iva |-> taxa_iva,
       base_iva |-> BaseIva(item_data.subtotal, taxa_iva),
       valor_iva |-> ValorIva(item_data.subtotal, taxa_iva) ]

\* A lookup that never finds the sale.
VendaExistenteNunca(id) == FALSE

\* The idempotency lookup: the committed sale with this id, if any.
VendaExistente(id) == id \in DOMAIN vendas

\* A response that is returned whether or not its validation raised.
SerializaSempre(ok, resp) == resp

\* return VendaResponse.model_validate(venda_full) at the end of criar_venda:
\* a ValidationError becomes HTTPException(500), which the handler re-raises
\* after a rollback that has nothing left to undo.
Serializa(ok, resp) ==
  IF ok THEN resp ELSE Resposta(500, "falha_serializar", None)

\* The replay branch answers: the sale was found and its validation did not
\* raise.  The lookup and the return sit in one try whose except Exception
\* is pass, so a sale that is found but fails validation is treated as not
\* found and the handler goes on to create it.
ReplayResponde(id, ok) == VendaExistente(id) /\ ok

\* A replay branch that broadcasts the created event before it returns.
EventoDoReplayPublica(id, entregue) == Broadcast("venda.created", id, entregue)

\* The replay branch returns at once: the broadcast of criar_venda comes
\* after the commit of a new sale and is not reached.
EventoDoReplay(id, entregue) == None

\* criar_venda up to its first write: resolve the id, look the sale up and
\* return the existing one untouched, or go on to create it.
VerificarIdempotencia(s, req) ==
  /\ sess[s].pc = "idle"
  /\ \E id \in VendaUuids(req) :
       IF ReplayResponde(id, serial_ok)
         THEN /\ resposta' =
                   Resposta(200, "existente",
                            Some(Hidratada(id, vendas[id], itens_venda[id])))
              /\ evento' = EventoDoReplay(id, canal_ok)
              /\ UNCHANGED <<vendas, itens_venda, estoque, sess, varsDividas, preco_custo, canal_ok, serial_ok, assinante>>
         ELSE /\ sess' = [sess EXCEPT ![s] =
                   [SessaoLivre EXCEPT !.pc = "insert", !.req = req,
                                       !.venda_uuid = id]]
              /\ UNCHANGED <<vendas, itens_venda, estoque, resposta, evento, varsDividas, preco_custo, canal_ok, serial_ok, assinante>>

\* An INSERT of a key another open transaction has inserted waits for it.
EsperaChave(s) ==
  \E t \in Sessoes \ {s} :
    sess[t].inseriu /\ sess[t].venda_uuid = sess[s].venda_uuid

\* An IntegrityError answered as a generic integrity violation.
ConflitoGenerico(s) == Rollback(s, 400, "violacao_integridade")

\* The IntegrityError of a duplicate key: rollback and 409.
ConflitoChave(s) == Rollback(s, 409, "chave_duplicada")

\* db.add(nova_venda); db.flush(): the INSERT into vendas.  A committed row
\* with the same primary key raises IntegrityError.
FlushVenda(s) ==
  /\ sess[s].pc = "insert"
  /\ ~EsperaChave(s)
  /\ IF sess[s].venda_uuid \in DOMAIN vendas
       THEN ConflitoChave(s)
       ELSE /\ sess' = [sess EXCEPT ![s].pc = "itens", ![s].inseriu = TRUE,
                                    ![s].i = 1]
            /\ UNCHANGED <<vendas, itens_venda, estoque, resposta, evento, varsDividas, preco_custo, canal_ok, serial_ok, assinante>>

\* The UPDATE of a product row waits while another open transaction holds
\* the row's lock (it has written the row and not yet ended).
EsperaLinha(s) ==
  \E t \in Sessoes \ {s} : sess[s].sujo \cap sess[t].gravado # {}

\* The session is at a statement that flushes its pending product updates:
\* the product SELECT of the next line, or the commit.
NoFlush(s) ==
  /\ sess[s].pc = "itens"
  /\ IF sess[s].i > Len(sess[s].req.itens)
       THEN TRUE
       ELSE UuidValido(sess[s].req.itens[sess[s].i].produto_id)

Bloqueada(s) == NoFlush(s) /\ EsperaLinha(s)

\* estoque_atual as the session sees it: the object already in the session,
\* else the committed row.
EstoqueAtual(s, p) ==
  IF p \in DOMAIN sess[s].mapa THEN sess[s].mapa[p] ELSE estoque[p]

\* preco_custo of the product as the session sees it: the object already in
\* the session, else the committed row.
CustoAtual(s, p) ==
  IF p \in DOMAIN sess[s].custos THEN sess[s].custos[p] ELSE preco_custo[p]

\* One pass of the item loop of criar_venda.
ProcessarItem(s) ==
  /\ sess[s].pc = "itens"
  /\ sess[s].i <= Len(sess[s].req.itens)
  /\ LET item_data == sess[s].req.itens[sess[s].i]
         p == item_data.produto_id
     IN IF ~UuidValido(p)
          THEN Rollback(s, 400, "produto_id_invalido")
          ELSE /\ ~EsperaLinha(s)
               /\ IF p \notin Produtos
                    THEN Rollback(s, 400, "produto_inexistente")
                    ELSE LET produto_db == Catalogo[p]
                             estoque_atual == EstoqueAtual(s, p)
                             delta == Delta(produto_db, item_data)
                             custo_produto == CustoAtual(s, p)
                             item == NovoItem(sess[s].venda_uuid, item_data,
                                              produto_db, custo_produto,
                                              sess[s].req.aplicar_iva)
                             lido == [sess[s] EXCEPT
                                        !.gravado = @ \cup sess[s].sujo,
                                        !.sujo = {},
                                        !.mapa = (p :> estoque_atual) @@ @,
                                        !.custos = (p :> custo_produto) @@ @,
                                        !.novos_itens = Append(@, item),
                                        !.i = @ + 1]
                         IN IF IsServico(produto_db)
                              THEN /\ sess' = [sess EXCEPT ![s] = lido]
                                   /\ UNCHANGED <<vendas, itens_venda, estoque,
                                                  resposta, evento, varsDividas, preco_custo, canal_ok, serial_ok, assinante>>
                              ELSE IF EstoqueInsuficiente(estoque_atual, delta)
                                     THEN Rollback(s, 400, "estoque_insuficiente")
                                     ELSE /\ sess' = [sess EXCEPT ![s] =
                                               [lido EXCEPT
                                                  !.mapa = (p :> (estoque_atual - delta)) @@ @,
                                                  !.sujo = {p}]]
                                          /\ UNCHANGED <<vendas, itens_venda, estoque,
                                                         resposta, evento, varsDividas, preco_custo, canal_ok, serial_ok, assinante>>

\* The products whose new stock the session's transaction writes.
Escritos(s) == sess[s].gravado \cup sess[s].sujo

\* db.commit(): the sale, its items and the stock of every product the
\* session changed become visible together; then the response.
CommitVenda(s) ==
  /\ sess[s].pc = "itens"
  /\ sess[s].i > Len(sess[s].req.itens)
  /\ ~EsperaLinha(s)
  /\ LET id == sess[s].venda_uuid
         linha == NovaVenda(sess[s].req)
     IN /\ vendas' = (id :> linha) @@ vendas
        /\ itens_venda' = [itens_venda EXCEPT ![id] = sess[s].novos_itens]
        /\ estoque' = [p \in Produtos |->
                         IF p \in Escritos(s) THEN sess[s].mapa[p] ELSE estoque[p]]
        /\ evento' = Broadcast("venda.created", id, canal_ok)
        /\ resposta' =
             Serializa(serial_ok,
               AposBroadcast(
                 Resposta(200, "criada",
                          Some(Hidratada(id, linha, sess[s].novos_itens))),
                 canal_ok))
        /\ assinante' = Recebe(assinante, id, canal_ok)
        /\ sess' = [sess EXCEPT ![s] = SessaoLivre]
        /\ UNCHANGED <<varsDividas, preco_custo, canal_ok, serial_ok>>

\* Two transactions each waiting for a row the other has locked: the store
\* aborts one of them, which criar_venda answers with 500 after rollback.
AbortarDeadlock(s) ==
  /\ Bloqueada(s)
  /\ \E t \in Sessoes \ {s} :
       /\ Bloqueada(t)
       /\ sess[s].sujo \cap sess[t].gravado # {}
       /\ sess[t].sujo \cap sess[s].gravado # {}
  /\ Rollback(s, 500, "erro")

\* A cancellation that gives stock back for every line of the sale.
EstoqueAposAnularRepondo(est, itens) ==
  [p \in DOMAIN est |->
     est[p] + Cardinality({i \in 1..Len(itens) : itens[i].produto_id = p})]

\* The stock after cancelar_venda: its only statement is the UPDATE of
\* vendas.cancelada, no product row is read or written.
EstoqueAposAnular(est, itens) == est

\* cancelar_venda: UPDATE ... SET cancelada = TRUE and commit.
CancelarVenda(s, id) ==
  /\ sess[s].pc = "idle"
  /\ IF id \in DOMAIN vendas
       THEN /\ vendas' = [vendas EXCEPT ![id].cancelada = TRUE]
            /\ estoque' = EstoqueAposAnular(estoque, itens_venda[id])
            /\ evento' = EventoDoCancelamento(TRUE, id, canal_ok)
            /\ resposta' =
                 AposBroadcast(
                   Resposta(200, "cancelada",
                            Some(Hidratada(id, vendas'[id], itens_venda[id]))),
                   canal_ok)
       ELSE /\ UNCHANGED <<vendas, estoque>>
            /\ evento' = EventoDoCancelamento(FALSE, id, canal_ok)
            /\ resposta' = Resposta(404, "nao_encontrada", None)
  /\ UNCHANGED <<itens_venda, sess, varsDividas, preco_custo, canal_ok, serial_ok, assinante>>

Campo(novo, atual) == IF novo = None THEN atual ELSE novo[1]

\* atualizar_venda: the fields sent replace the row's.
AtualizarVenda(s, id, upd) ==
  /\ sess[s].pc = "idle"
  /\ IF id \in DOMAIN vendas
       THEN /\ vendas' = [vendas EXCEPT ![id] =
                 [ usuario_id |-> Campo(upd.usuario_id, @.usuario_id),
                   cliente_id |-> Campo(upd.cliente_id, @.cliente_id),
                   total |-> Campo(upd.total, @.total),
                   desconto |-> Campo(upd.desconto, @.desconto),
                   forma_pagamento |-> Campo(upd.forma_pagamento, @.forma_pagamento),
                   observacoes |-> Campo(upd.observacoes, @.observacoes),
                   cancelada |-> Campo(upd.cancelada, @.cancelada) ]]
            /\ resposta' =
                 Resposta(200, "atualizada",
                          Some(Hidratada(id, vendas'[id], itens_venda[id])))
       ELSE /\ UNCHANGED vendas
            /\ resposta' = Resposta(500, "erro", None)
  /\ evento' = None
  /\ UNCHANGED <<itens_venda, estoque, sess, varsDividas, preco_custo, canal_ok, serial_ok, assinante>>

\* A rule that lets any sale be deleted.
PodeExcluirSempre(venda) == TRUE

\* The rule of deletar_venda: bool(getattr(venda, 'cancelada', False)).
PodeExcluir(venda) == venda.cancelada

\* deletar_venda: only a cancelled sale is deleted, its items first.
DeletarVenda(s, id) ==
  /\ sess[s].pc = "idle"
  /\ IF id \notin DOMAIN vendas
       THEN /\ resposta' = Resposta(404, "nao_encontrada", None)
            /\ evento' = None
            /\ UNCHANGED <<vendas, itens_venda>>
       ELSE IF ~PodeExcluir(vendas[id])
              THEN /\ resposta' = Resposta(400, "nao_anulada", None)
                   /\ evento' = None
                   /\ UNCHANGED <<vendas, itens_venda>>
              ELSE /\ itens_venda' = [itens_venda EXCEPT ![id] = <<>>]
                   /\ vendas' = [v \in DOMAIN vendas \ {id} |-> vendas[v]]
                   /\ evento' = Broadcast("venda.deleted", id, canal_ok)
                   /\ resposta' =
                        AposBroadcast(Resposta(200, "deletada", None), canal_ok)
  /\ UNCHANGED <<estoque, sess, varsDividas, preco_custo, canal_ok, serial_ok, assinante>>

Next ==
  \/ \E s \in Sessoes, req \in Requisicoes : VerificarIdempotencia(s, req)
  \/ \E s \in Sessoes : FlushVenda(s)
  \/ \E s \in Sessoes : ProcessarItem(s)
  \/ \E s \in Sessoes : CommitVenda(s)
  \/ \E s \in Sessoes : AbortarDeadlock(s)
  \/ \E s \in Sessoes, id \in IdsVenda : CancelarVenda(s, id)
  \/ \E s \in Sessoes, id \in IdsVenda, upd \in Atualizacoes : AtualizarVenda(s, id, upd)
  \/ \E s \in Sessoes, id \in IdsVenda : DeletarVenda(s, id)

Spec == Init /\ [][Next]_vars


(***************************************************************************)
(* Debts (app/routers/dividas.py).  Money is in cents.                     *)
(***************************************************************************)
\* The literal 0.01 of the settlement test, in cents.
ToleranciaQuitacao == 1

\* Payments accepted over a run of the model.
MaxPagamentos == 3

ItemDividaIn(pid, subtotal) ==
  [ produto_id |-> pid, quantidade |-> 1, preco_unitario |-> subtotal,
    subtotal |-> subtotal ]

DividaCreate(id_local, desconto, percentual, itens) ==
  [ id_local |-> id_local, cliente_id |-> "", usuario_id |-> "",
    observacao |-> "", desconto_aplicado |-> desconto,
    percentual_desconto |-> percentual, itens |-> itens ]

\* The debt-creation bodies explored.
DividasNovas ==
  { DividaCreate(Some(1), 0, 0, <<ItemDividaIn("pA", 20000)>>),
    DividaCreate(None, 1000, 10, <<ItemDividaIn("pA", 15000), ItemDividaIn("pS", 5000)>>),
    DividaCreate(Some(2), 0, 0, <<>>),
    DividaCreate(Some(2), 0, 0, <<ItemDividaIn("pA", 5000), ItemDividaIn("pX", 5000)>>),
    DividaCreate(Some(2), 0, 0, <<ItemDividaIn("nao-e-uuid", 5000)>>),
    DividaCreate(Some(3), 30000, 0, <<ItemDividaIn("pA", 20000)>>) }

PagamentoDividaIn(valor, forma) ==
  [ valor |-> valor, forma_pagamento |-> forma, usuario_id |-> "" ]

\* The payment bodies explored.
PagamentosNovos ==
  { PagamentoDividaIn(15000, "Dinheiro"), PagamentoDividaIn(5000, "Cartao"),
    PagamentoDividaIn(19999, "Dinheiro"), PagamentoDividaIn(0, "Dinheiro") }

\* The debt ids of the payment requests explored.
IdsPagamento == {"d1", "d2", "d9", "nao-e-uuid"}

RECURSIVE SomaSubtotais(_)
SomaSubtotais(itens) ==
  IF itens = <<>> THEN 0 ELSE Head(itens).subtotal + SomaSubtotais(Tail(itens))

\* valor_original, desconto_aplicado and valor_total of criar_divida.
ValorOriginal(payload) == SomaSubtotais(payload.itens)

\* A discount that ignores percentual_desconto.
DescontoAplicadoSoExplicito(payload) == payload.desconto_aplicado

DescontoAplicado(payload) ==
  IF payload.percentual_desconto > 0
    THEN (ValorOriginal(payload) * payload.percentual_desconto) \div 100
    ELSE payload.desconto_aplicado

ValorTotal(payload) == Max(0, ValorOriginal(payload) - DescontoAplicado(payload))

\* The Divida row criar_divida builds.
NovaDivida(payload) ==
  [ id_local |-> payload.id_local,
    cliente_id |-> ParseUuid(payload.cliente_id),
    usuario_id |-> ParseUuid(payload.usuario_id),
    valor_total |-> ValorTotal(payload),
    valor_original |-> ValorOriginal(payload),
    desconto_aplicado |-> DescontoAplicado(payload),
    percentual_desconto |-> payload.percentual_desconto,
    valor_pago |-> 0,
    status |-> "Pendente",
    observacao |-> payload.observacao ]

NovoItemDivida(divida_id, item) ==
  [ divida_id |-> divida_id, produto_id |-> item.produto_id,
    quantidade |-> item.quantidade, preco_unitario |-> item.preco_unitario,
    subtotal |-> item.subtotal ]

\* An item loop that checks the form of the product ids only.
RECURSIVE ErroItensSoFormato(_)
ErroItensSoFormato(itens) ==
  IF itens = <<>> THEN ""
  ELSE IF ParseUuid(Head(itens).produto_id) = "" THEN "produto_id_invalido"
  ELSE ErroItensSoFormato(Tail(itens))

\* The error of the first item the item loop of criar_divida rejects, or "".
RECURSIVE ErroItens(_)
ErroItens(itens) ==
  IF itens = <<>> THEN ""
  ELSE IF ParseUuid(Head(itens).produto_id) = "" THEN "produto_id_invalido"
  ELSE IF Head(itens).produto_id \notin Produtos THEN "produto_inexistente"
  ELSE ErroItens(Tail(itens))

\* A store without a uniqueness constraint on dividas.id_local.
IdLocalSemRestricao(tabela, id_local) == TRUE

\* The store's uniqueness constraint on the debt's idempotency key: a row
\* with a non-null id_local can be inserted when no row of tabela has it.
IdLocalLivre(tabela, id_local) ==
  \/ id_local = None
  \/ \A d \in DOMAIN tabela : tabela[d].id_local # id_local

\* criar_divida: one transaction that inserts the debt and its items, or is
\* rolled back on the first item it rejects or on the error of the INSERT.
CriarDivida(payload) ==
  /\ IF payload.itens = <<>>
       THEN /\ resposta' = Resposta(400, "sem_itens", None)
            /\ UNCHANGED <<dividas, itens_divida>>
       ELSE IF ~IdLocalLivre(dividas, payload.id_local)
              THEN /\ resposta' = Resposta(500, "erro", None)
                   /\ UNCHANGED <<dividas, itens_divida>>
       ELSE IF ErroItens(payload.itens) # ""
              THEN /\ resposta' = Resposta(400, ErroItens(payload.itens), None)
                   /\ UNCHANGED <<dividas, itens_divida>>
              ELSE \E id \in IdsDivida \ DOMAIN dividas :
                     /\ dividas' = (id :> NovaDivida(payload)) @@ dividas
                     /\ itens_divida' = [itens_divida EXCEPT ![id] =
                          [k \in 1..Len(payload.itens) |->
                             NovoItemDivida(id, payload.itens[k])]]
                     /\ resposta' = Resposta(201, "criada", Some(dividas'[id]))
  /\ evento' = None
  /\ UNCHANGED <<varsVendas, preco_custo, canal_ok, serial_ok, assinante, pagamentos, dsess>>

\* A value test that lets a payment of zero through.
ValorInvalidoSoNegativo(payload) == payload.valor < 0

\* The first check of registrar_pagamento_divida: payload.valor <= 0.
ValorInvalido(payload) == payload.valor <= 0

\* Payment requests in progress.
PagamentosAbertos == { s \in Sessoes : dsess[s].pc # "idle" }

\* registrar_pagamento_divida up to the SELECT of the debt: the checks of the
\* value and of the id, and the row as the session loads it.
CarregarDivida(s, divida_id, payload) ==
  /\ dsess[s].pc = "idle"
  /\ IF ValorInvalido(payload)
       THEN /\ resposta' = Resposta(400, "valor_invalido", None)
            /\ evento' = None
            /\ UNCHANGED dsess
       ELSE IF ParseUuid(divida_id) = ""
              THEN /\ resposta' = Resposta(400, "id_invalido", None)
                   /\ evento' = None
                   /\ UNCHANGED dsess
              ELSE IF divida_id \notin DOMAIN dividas
                     THEN /\ resposta' = Resposta(404, "nao_encontrada", None)
                          /\ evento' = None
                          /\ UNCHANGED dsess
                     ELSE /\ Len(pagamentos) + Cardinality(PagamentosAbertos)
                               < MaxPagamentos
                          /\ dsess' = [dsess EXCEPT ![s] =
                               [ pc |-> "lido", divida_id |-> divida_id,
                                 valor |-> payload.valor,
                                 forma_pagamento |-> payload.forma_pagamento,
                                 lido |-> [ valor_pago |-> dividas[divida_id].valor_pago,
                                            valor_total |-> dividas[divida_id].valor_total,
                                            status |-> dividas[divida_id].status ] ]]
                          /\ UNCHANGED <<resposta, evento>>
  /\ UNCHANGED <<varsVendas, preco_custo, canal_ok, serial_ok, assinante, dividas, itens_divida, pagamentos>>

\* The status registrar_pagamento_divida gives a debt paid novo_valor_pago.
StatusPagamento(novo_valor_pago, valor_total) ==
  IF novo_valor_pago >= valor_total - ToleranciaQuitacao
    THEN "Quitado" ELSE "Parcial"

\* dividas.py imports Divida, ItemDivida, PagamentoDivida, Produto, Cliente
\* and User from app.db.models: the name Venda that the synthetic sale of a
\* payment uses is not defined in the module.
NomeVendaDefinido == FALSE

\* The Venda the payment would add for the reports.
VendaDoPagamento(s) ==
  [ usuario_id |-> "", cliente_id |-> dividas[dsess[s].divida_id].cliente_id,
    total |-> dsess[s].valor, desconto |-> 0,
    forma_pagamento |-> dsess[s].forma_pagamento,
    observacoes |-> "Pagamento de divida", cancelada |-> FALSE ]

\* What the caller of a committed payment receives.  When the synthetic
\* sale raises, its except branch runs db.rollback(), which expires every
\* object of the session; DividaOut.model_validate(divida) then reads the
\* attributes of an expired object, which an AsyncSession cannot reload
\* outside an awaited call, so the read raises and the outer handler answers
\* 500 although the payment is committed.
RespostaPagamento(linha) ==
  IF NomeVendaDefinido
    THEN Resposta(200, "pago", Some(linha))
    ELSE Resposta(500, "erro", None)

\* The rest of registrar_pagamento_divida: the payment row and the new
\* valor_pago and status, computed from the row as loaded, are committed
\* (the UPDATE carries the columns whose value differs from the loaded one);
\* then the synthetic sale is tried.
CommitPagamento(s) ==
  /\ dsess[s].pc = "lido"
  /\ LET d == dsess[s].divida_id
         lido == dsess[s].lido
         novo_valor_pago == lido.valor_pago + dsess[s].valor
         status == StatusPagamento(novo_valor_pago, lido.valor_total)
     IN /\ pagamentos' = Append(pagamentos,
              [ divida_id |-> d, valor |-> dsess[s].valor,
                forma_pagamento |-> dsess[s].forma_pagamento, usuario_id |-> "" ])
        /\ dividas' = [dividas EXCEPT
              ![d].valor_pago = novo_valor_pago,
              ![d].status = IF status # lido.status THEN status ELSE @]
        /\ resposta' = RespostaPagamento(dividas'[d])
        /\ IF NomeVendaDefinido /\ UuidsNovos # {}
             THEN \E id \in UuidsNovos :
                    vendas' = (id :> VendaDoPagamento(s)) @@ vendas
             ELSE UNCHANGED vendas
  /\ dsess' = [dsess EXCEPT ![s] = PagamentoLivre]
  /\ evento' = None
  /\ UNCHANGED <<itens_venda, estoque, sess, itens_divida, preco_custo, canal_ok, serial_ok, assinante>>

NextDividas ==
  \/ \E payload \in DividasNovas : CriarDivida(payload)
  \/ \E s \in Sessoes, divida_id \in IdsPagamento, payload \in PagamentosNovos :
       CarregarDivida(s, divida_id, payload)
  \/ \E s \in Sessoes : CommitPagamento(s)

SpecDividas == Init /\ [][NextDividas]_vars

(***************************************************************************)
(* Batch sync of debts (sync_dividas).                                     *)
(***************************************************************************)
P1 == DividaCreate(Some(1), 0, 0, <<ItemDividaIn("pA", 20000)>>)
P2 == DividaCreate(Some(2), 0, 0, <<ItemDividaIn("pB", 7000), ItemDividaIn("pA", 3000)>>)
PSemChave == DividaCreate(None, 0, 0, <<ItemDividaIn("pA", 4000)>>)
PSemItens == DividaCreate(Some(4), 0, 0, <<>>)
PProdutoFalta == DividaCreate(Some(5), 0, 0, <<ItemDividaIn("pA", 5000), ItemDividaIn("pX", 5000)>>)

\* The lists payload.data explored.
Lotes ==
  { <<>>, <<P1, P2>>, <<P1, P1>>, <<PSemChave>>, <<P1, PProdutoFalta>>,
    <<PProdutoFalta, P1>>, <<P1, PSemItens, P2>> }

\* The session of a sync request: the tables as the session sees them (the
\* committed rows and its own flushed ones), the ids it has flushed and not
\* committed, and the counters of the response.
InicioLote ==
  [ dividas |-> dividas, itens |-> itens_divida, pendentes |-> {},
    created |-> 0, skipped |-> 0, errors |-> <<>> ]

\* A lookup that never finds the debt.
DividaComIdLocalNunca(tabela, id_local) == FALSE

\* select(Divida).where(Divida.id_local == item.id_local): a row is found.
DividaComIdLocal(tabela, id_local) ==
  \E d \in DOMAIN tabela : tabela[d].id_local = id_local

\* The id of the next debt of the session.
ProximoId(tabela) == CHOOSE id \in IdsSync : id \notin DOMAIN tabela

\* A discount of the sync loop that ignores percentual_desconto.
DescontoAplicadoSyncSoExplicito(item) == item.desconto_aplicado

\* desconto_aplicado of the sync loop: the percentage of the original value
\* when a positive percentage is sent, else the amount sent.
DescontoAplicadoSync(item) ==
  IF item.percentual_desconto > 0
    THEN (SomaSubtotais(item.itens) * item.percentual_desconto) \div 100
    ELSE item.desconto_aplicado

\* The Divida row the sync loop builds for an item of the batch.
NovaDividaSync(item) ==
  [ id_local |-> item.id_local,
    cliente_id |-> ParseUuid(item.cliente_id),
    usuario_id |-> ParseUuid(item.usuario_id),
    valor_total |-> Max(0, SomaSubtotais(item.itens) - DescontoAplicadoSync(item)),
    valor_original |-> SomaSubtotais(item.itens),
    desconto_aplicado |-> DescontoAplicadoSync(item),
    percentual_desconto |-> item.percentual_desconto,
    valor_pago |-> 0,
    status |-> "Pendente",
    observacao |-> item.observacao ]

\* The ItemDivida row the sync loop builds.
NovoItemDividaSync(divida_id, it) ==
  [ divida_id |-> divida_id, produto_id |-> it.produto_id,
    quantidade |-> it.quantidade, preco_unitario |-> it.preco_unitario,
    subtotal |-> it.subtotal ]

\* The error of the first line the item loop of the sync loop rejects, or "".
RECURSIVE ErroItensSync(_)
ErroItensSync(itens) ==
  IF itens = <<>> THEN ""
  ELSE IF ParseUuid(Head(itens).produto_id) = "" THEN "produto_id_invalido"
  ELSE IF Head(itens).produto_id \notin Produtos THEN "produto_inexistente"
  ELSE ErroItensSync(Tail(itens))

\* An except branch that rolls back without recording the error.
ErroNoItemSemRegistro(st, idx, item, detail) ==
  [ st EXCEPT
      !.dividas = [d \in DOMAIN st.dividas \ st.pendentes |-> st.dividas[d]],
      !.itens = [d \in DOMAIN st.itens |->
                   IF d \in st.pendentes THEN <<>> ELSE st.itens[d]],
      !.pendentes = {} ]

\* The except branches of the loop: the error is recorded and db.rollback()
\* discards everything the session flushed since its last commit.
ErroNoItem(st, idx, item, detail) ==
  [ st EXCEPT
      !.dividas = [d \in DOMAIN st.dividas \ st.pendentes |-> st.dividas[d]],
      !.itens = [d \in DOMAIN st.itens |->
                   IF d \in st.pendentes THEN <<>> ELSE st.itens[d]],
      !.pendentes = {},
      !.errors = Append(@, [index |-> idx, id_local |-> item.id_local,
                            detail |-> detail]) ]

\* One pass of the loop body for the item at position idx (from 0).
SincronizarItem(st, idx, item) ==
  IF item.id_local # None /\ DividaComIdLocal(st.dividas, item.id_local)
    THEN [st EXCEPT !.skipped = @ + 1]
  ELSE IF item.itens = <<>> THEN ErroNoItem(st, idx, item, "sem_itens")
  ELSE IF ~IdLocalLivre(st.dividas, item.id_local)
    THEN ErroNoItem(st, idx, item, "erro")
  ELSE IF ErroItensSync(item.itens) # ""
    THEN ErroNoItem(st, idx, item, ErroItensSync(item.itens))
  ELSE LET id == ProximoId(st.dividas)
       IN [ st EXCEPT
              !.dividas = (id :> NovaDividaSync(item)) @@ @,
              !.itens = [@ EXCEPT ![id] =
                           [k \in 1..Len(item.itens) |->
                              NovoItemDividaSync(id, item.itens[k])]],
              !.pendentes = @ \cup {id},
              !.created = @ + 1 ]

\* The loop over payload.data from position k on.
RECURSIVE ExecutarLote(_, _, _)
ExecutarLote(st, data, k) ==
  IF k > Len(data) THEN st
  ELSE ExecutarLote(SincronizarItem(st, k - 1, data[k]), data, k + 1)

\* The body of the response of sync_dividas.
RespostaSync(st) ==
  Resposta(200, IF st.errors = <<>> THEN "ok" ELSE "partial",
           Some([ created |-> st.created, skipped |-> st.skipped,
                  errors |-> st.errors ]))

\* sync_dividas: the loop, then one commit of what the session still holds.
\* The commit succeeds, or the store fails it: rollback and 500.  An empty
\* batch is answered before anything is sent to the store.
SyncDividas(data) ==
  /\ Cardinality(IdsSync \ DOMAIN dividas) >= Len(data)
  /\ LET st == ExecutarLote(InicioLote, data, 1)
     IN \E commit_ok \in BOOLEAN :
          IF commit_ok \/ data = <<>>
            THEN /\ dividas' = st.dividas
                 /\ itens_divida' = st.itens
                 /\ resposta' = RespostaSync(st)
            ELSE /\ UNCHANGED <<dividas, itens_divida>>
                 /\ resposta' = Resposta(500, "erro_ao_finalizar", None)
  /\ evento' = None
  /\ UNCHANGED <<varsVendas, preco_custo, canal_ok, serial_ok, assinante, pagamentos, dsess>>

NextSync ==
  \/ \E payload \in DividasNovas : CriarDivida(payload)
  \/ \E data \in Lotes : SyncDividas(data)

SpecSync == Init /\ [][NextSync]_vars

\* Each body of a debt sent alone, to criar_divida or as a batch of one.
NextUmPorUm ==
  \/ \E payload \in DividasNovas : CriarDivida(payload)
  \/ \E payload \in DividasNovas : SyncDividas(<<payload>>)

SpecUmPorUm == Init /\ [][NextUmPorUm]_vars

\* Payments on the one debt P1 creates.
NextPagamentos ==
  \/ CriarDivida(P1)
  \/ \E s \in Sessoes, divida_id \in IdsPagamento, payload \in PagamentosNovos :
       CarregarDivida(s, divida_id, payload)
  \/ \E s \in Sessoes : CommitPagamento(s)

SpecPagamentos == Init /\ [][NextPagamentos]_vars


(***************************************************************************)
(* The lines of a sale: one terminal posting request bodies whose lines    *)
(* cover services, weights, quantities, tax rates and unit costs.          *)
(***************************************************************************)
\* A line of a request body as the terminal sends it.
CorpoLinha(pid, q, peso, subtotal, custo) ==
  [ produto_id |-> pid, quantidade |-> q, peso_kg |-> peso,
    preco_unitario |-> 1150, subtotal |-> subtotal,
    preco_custo_unitario |-> custo ]

\* ItemVendaCreate: the fields the schema declares; extra keys of the body
\* are ignored.
ItemVendaCreate(linha) ==
  [ produto_id |-> linha.produto_id, quantidade |-> linha.quantidade,
    peso_kg |-> linha.peso_kg, preco_unitario |-> linha.preco_unitario,
    subtotal |-> linha.subtotal ]

\* A request body: the fields of VendaCreate with the lines as sent.
CorpoVenda(u, linhas, aplicar_iva) ==
  [ VendaCreate(u, linhas) EXCEPT !.aplicar_iva = aplicar_iva ]

\* The body parsed into VendaCreate (itens: List[ItemVendaCreate]).
ParseVendaCreate(corpo) ==
  [ corpo EXCEPT !.itens =
      [k \in 1..Len(corpo.itens) |-> ItemVendaCreate(corpo.itens[k])] ]

\* The request bodies explored.
CorposItens ==
  { CorpoVenda("u1", <<CorpoLinha("pA", 1, 0, 11500, 650)>>, TRUE),
    CorpoVenda("u1", <<CorpoLinha("pA", 0, 0, 1150, 0)>>, TRUE),
    CorpoVenda("u1", <<CorpoLinha("pA", 1, 0, 1150, 0)>>, FALSE),
    CorpoVenda("u2", <<CorpoLinha("pB", 1, 0, 1150, 0),
                       CorpoLinha("pS", 2, 0, 2300, 0)>>, TRUE),
    CorpoVenda("u2", <<CorpoLinha("pB", 1, Meio, 1150, 0),
                       CorpoLinha("pI", 1, Meio, 1150, 0)>>, TRUE),
    CorpoVenda("u2", <<CorpoLinha("pG", 2, 0, 2300, 0),
                       CorpoLinha("pC", 2, 0, 2300, 0)>>, TRUE),
    CorpoVenda("u2", <<CorpoLinha("pA", 2, 0, 2300, 0)>>, TRUE),
    CorpoVenda("", <<CorpoLinha("pN", 1, 0, 1150, 0)>>, TRUE),
    CorpoVenda("", <<CorpoLinha("pN", 2, 0, 2300, 0)>>, TRUE),
    CorpoVenda("", <<CorpoLinha("pC", 0, 0, 1150, 250),
                     CorpoLinha("pC", 2, 0, 2300, 0)>>, TRUE) }

\* The costs catalog management gives to a product.
CustosNovos == {700, 800}

\* Catalog management edits the cost of a product.
AlterarCusto(p, c) ==
  /\ c # preco_custo[p]
  /\ preco_custo' = [preco_custo EXCEPT ![p] = c]
  /\ UNCHANGED <<varsVendas, resposta, evento, varsDividas, canal_ok, serial_ok, assinante>>

NextItens ==
  \/ \E corpo \in CorposItens :
       VerificarIdempotencia("s1", ParseVendaCreate(corpo))
  \/ FlushVenda("s1")
  \/ ProcessarItem("s1")
  \/ CommitVenda("s1")
  \/ \E c \in CustosNovos : AlterarCusto("pA", c)

SpecItens == Init /\ [][NextItens]_vars


(***************************************************************************)
(* The life of a sale: one terminal that creates, replays, updates,        *)
(* cancels and deletes sales while the catalog cost changes and a debt is  *)
(* paid.                                                                   *)
(***************************************************************************)
CorposHistorico ==
  { CorpoVenda("u1", <<CorpoLinha("pA", 1, 0, 1150, 0),
                       CorpoLinha("pB", 1, Meio, 1150, 0)>>, TRUE),
    CorpoVenda("u2", <<CorpoLinha("pB", 1, Meio, 1150, 0)>>, TRUE),
    CorpoVenda("u2", <<CorpoLinha("pA", 1, 0, 1150, 0)>>, TRUE) }

\* Bodies of atualizar_venda: new total and payment method, or the
\* cancelled flag taken back.
AtualizacoesHistorico ==
  { VendaUpdate(Some(999), Some("Cartao"), None),
    VendaUpdate(None, None, Some(FALSE)) }

\* A subscriber's connection breaks, or is restored: from then on the
\* broadcast of the realtime manager raises, or delivers.
AlternarCanal ==
  /\ canal_ok' = ~canal_ok
  /\ UNCHANGED <<varsVendas, resposta, evento, varsDividas, preco_custo, serial_ok, assinante>>

\* The rows of the store start, or stop, passing the validation of
\* VendaResponse (a value the response model refuses, such as a row written
\* by another version of the schema).
AlternarSerializacao ==
  /\ serial_ok' = ~serial_ok
  /\ UNCHANGED <<varsVendas, resposta, evento, varsDividas, preco_custo, canal_ok, assinante>>

NextHistorico ==
  \/ \E corpo \in CorposHistorico :
       VerificarIdempotencia("s1", ParseVendaCreate(corpo))
  \/ FlushVenda("s1")
  \/ ProcessarItem("s1")
  \/ CommitVenda("s1")
  \/ \E id \in UuidsVenda : CancelarVenda("s1", id)
  \/ \E id \in UuidsVenda, upd \in AtualizacoesHistorico :
       AtualizarVenda("s1", id, upd)
  \/ \E id \in UuidsVenda : DeletarVenda("s1", id)
  \/ \E c \in CustosNovos : AlterarCusto("pA", c)
  \/ AlternarCanal
  \/ CriarDivida(P1)
  \/ CarregarDivida("s1", "d1", PagamentoDividaIn(15000, "Dinheiro"))
  \/ CommitPagamento("s1")

SpecHistorico == Init /\ [][NextHistorico]_vars

\* Lists whose items have no local id or share one, alone and next to an
\* item that is rejected.
LotesChave ==
  { <<PSemChave>>, <<PSemChave, PSemChave>>, <<P1, P1>>, <<PSemChave, P2>>,
    <<PSemChave, PProdutoFalta>>, <<P1, PSemItens, P1>> }

NextChave ==
  \/ \E payload \in DividasNovas : CriarDivida(payload)
  \/ \E data \in LotesChave : SyncDividas(data)

SpecChave == Init /\ [][NextChave]_vars

\* A terminal opens its realtime connection.
ConectarAssinante ==
  /\ ~assinante.conectado
  /\ assinante' = [assinante EXCEPT !.conectado = TRUE]
  /\ UNCHANGED <<varsVendas, resposta, evento, varsDividas, preco_custo, canal_ok, serial_ok>>

\* One terminal creating, re-posting, cancelling and deleting sales while a
\* subscriber listens and the channel and the validation fail or work.
NextEventos ==
  \/ \E corpo \in CorposHistorico :
       VerificarIdempotencia("s1", ParseVendaCreate(corpo))
  \/ FlushVenda("s1")
  \/ ProcessarItem("s1")
  \/ CommitVenda("s1")
  \/ \E id \in UuidsVenda : CancelarVenda("s1", id)
  \/ \E id \in UuidsVenda : DeletarVenda("s1", id)
  \/ AlternarCanal
  \/ AlternarSerializacao
  \/ ConectarAssinante

SpecEventos == Init /\ [][NextEventos]_vars

\* Two terminals posting and re-posting sales while the validation of the
\* response fails or passes.
NextRepeticao ==
  \/ \E s \in Sessoes, corpo \in CorposHistorico :
       VerificarIdempotencia(s, ParseVendaCreate(corpo))
  \/ \E s \in Sessoes : FlushVenda(s)
  \/ \E s \in Sessoes : ProcessarItem(s)
  \/ \E s \in Sessoes : CommitVenda(s)
  \/ AlternarSerializacao

SpecRepeticao == Init /\ [][NextRepeticao]_vars

(***************************************************************************)
(* Properties of sale creation                                             *)
(***************************************************************************)
BancoVendas == <<vendas, itens_venda, estoque>>

\* The sum of the deltas of the stock-tracked lines of itens for product p.
RECURSIVE SomaDeltas(_, _)
SomaDeltas(itens, p) ==
  IF itens = <<>> THEN 0
  ELSE (IF Head(itens).produto_id = p /\ ~IsServico(Catalogo[p])
          THEN Delta(Catalogo[p], Head(itens)) ELSE 0)
       + SomaDeltas(Tail(itens), p)

LinhaExcede(s, margem) ==
  /\ sess[s].pc = "itens"
  /\ sess[s].i <= Len(sess[s].req.itens)
  /\ LET item_data == sess[s].req.itens[sess[s].i]
         p == item_data.produto_id
     IN /\ p \in Produtos
        /\ ~IsServico(Catalogo[p])
        /\ Delta(Catalogo[p], item_data) > EstoqueAtual(s, p) + margem

Rejeitada(s) ==
  /\ resposta' = Resposta(400, "estoque_insuficiente", None)
  /\ sess'[s] = SessaoLivre
  /\ UNCHANGED BancoVendas

\* C2 as stated: a line whose delta D is greater than the stock S is rejected
\* with the insufficient-stock error and the committed stock stays S.
C2_Original ==
  [][ \A s \in Sessoes :
        (LinhaExcede(s, 0) /\ ProcessarItem(s)) => Rejeitada(s) ]_vars

\* C2 amended: a line whose delta D is greater than S + 1e-9 is rejected with
\* the insufficient-stock error and the committed stock stays S.
C2_RejeitaAcimaDaTolerancia ==
  [][ \A s \in Sessoes :
        (LinhaExcede(s, EpsEstoque) /\ ProcessarItem(s)) => Rejeitada(s) ]_vars

\* A request for 2 units of pA (stock 1) was rejected and the stock is intact.
C2_Witness ==
  /\ resposta = Resposta(400, "estoque_insuficiente", None)
  /\ estoque = EstoqueInicial
  /\ vendas = <<>>

\* C3 as stated: the commit of every sale lowers the committed stock of each
\* product by exactly the sum of the sale's deltas for it, so the committed
\* stock is the initial stock minus the deltas of all committed sales.
C3_DecrementoSerializado ==
  [][ \A s \in Sessoes :
        CommitVenda(s) =>
          \A p \in Produtos :
            estoque'[p] = estoque[p] - SomaDeltas(sess[s].req.itens, p) ]_vars

\* C4 as stated: the stock of every stock-tracked product is >= 0.
C4_Original ==
  \A p \in Produtos : ~IsServico(Catalogo[p]) => estoque[p] >= 0

\* C4 amended: the stock of every stock-tracked product is >= -1e-9, over any
\* interleaving of sale creations, cancellations, updates and deletions.
C4_EstoqueAcimaDaTolerancia ==
  \A p \in Produtos : ~IsServico(Catalogo[p]) => estoque[p] >= 0 - EpsEstoque

\* A committed sale with two lines of pB that took the stock to the bound.
C4_Witness ==
  /\ "u1" \in DOMAIN vendas
  /\ itens_venda["u1"] =
       << NovoItem("u1", LB5, Catalogo["pB"], PrecoCustoInicial["pB"], TRUE),
          NovoItem("u1", LBe, Catalogo["pB"], PrecoCustoInicial["pB"], TRUE) >>
  /\ estoque["pB"] = 0 - EpsEstoque

\* C5: a step of a criar_venda request that is not its successful commit
\* (a rejection for any line, or progress through the item loop) leaves the
\* committed sales, items and stock unchanged.
C5_RejeicaoTudoOuNada ==
  [][ \A s \in Sessoes :
        (sess'[s] # sess[s]
           /\ ~(resposta'.status = 200 /\ resposta'.detalhe = "criada"
                  /\ sess[s].venda_uuid \in DOMAIN vendas'))
        => UNCHANGED BancoVendas ]_vars

\* A request rejected on its second line (unknown product) after its first
\* line had lowered the stock of pA in the session.
C5_Witness ==
  /\ resposta = Resposta(400, "produto_inexistente", None)
  /\ estoque["pA"] = Escala
  /\ "u2" \notin DOMAIN vendas
  /\ itens_venda["u2"] = <<>>

\* C6 as stated: the commit of a sale makes the sale, all items of its
\* request and the stock decrements visible together, each product's stock
\* lowered by exactly the sum of the sale's deltas for it.
C6_CommitAtomico ==
  [][ \A s \in Sessoes :
        (sess[s].pc = "itens" /\ sess'[s].pc = "idle"
           /\ sess[s].venda_uuid \in DOMAIN vendas')
        => /\ Len(itens_venda'[sess[s].venda_uuid]) = Len(sess[s].req.itens)
           /\ \A p \in Produtos :
                 estoque'[p] = estoque[p] - SomaDeltas(sess[s].req.itens, p) ]_vars

\* C7: two open requests never both hold an inserted sale with the same id,
\* an open request's inserted id is not a committed sale, and a request
\* whose INSERT meets a committed sale with its id ends with 409 and writes
\* nothing.
C7_UuidConcorrente ==
  /\ [](\A s \in Sessoes :
          sess[s].inseriu =>
            /\ sess[s].venda_uuid \notin DOMAIN vendas
            /\ \A t \in Sessoes \ {s} :
                  ~(sess[t].inseriu /\ sess[t].venda_uuid = sess[s].venda_uuid))
  /\ [][ \A s \in Sessoes :
          (sess[s].pc = "insert" /\ sess[s].venda_uuid \in DOMAIN vendas
             /\ sess'[s] # sess[s])
          => /\ resposta' = Resposta(409, "chave_duplicada", None)
             /\ UNCHANGED BancoVendas ]_vars

\* The loser of a race on u1 was answered 409 while the winner's sale stands.
C7_Witness ==
  /\ resposta.status = 409
  /\ "u1" \in DOMAIN vendas
  /\ estoque["pA"] = 0


(***************************************************************************)
(* Properties of debt payments                                             *)
(***************************************************************************)
OrdemStatus(st) ==
  CASE st = "Pendente" -> 0 [] st = "Parcial" -> 1 [] st = "Quitado" -> 2

\* C8 as stated: over any interleaving of payments the committed status of a
\* debt never moves backwards along Pendente -> Parcial -> Quitado.
C8_StatusMonotono ==
  [][ \A d \in DOMAIN dividas :
        OrdemStatus(dividas'[d].status) >= OrdemStatus(dividas[d].status) ]_vars

\* C9 as stated: valor_pago <= valor_total up to the 0.01 tolerance.
C9_PagoAteTotal ==
  \A d \in DOMAIN dividas :
    dividas[d].valor_pago <= dividas[d].valor_total + ToleranciaQuitacao

\* C10 as stated: the committed valor_pago of a debt never becomes smaller.
C10_PagoNaoDecresce ==
  [][ \A d \in DOMAIN dividas :
        dividas'[d].valor_pago >= dividas[d].valor_pago ]_vars

\* C11 as stated: a payment of v > 0 that passes the checks appends exactly
\* one payment row of value v to the debt, makes the committed valor_pago the
\* previous committed valor_pago plus v, and makes the status Quitado when
\* the new valor_pago >= valor_total - 0.01 and Parcial otherwise.
C11_PagamentoRegistrado ==
  [][ \A s \in Sessoes :
        (dsess[s].pc = "lido" /\ dsess'[s].pc = "idle")
        => LET d == dsess[s].divida_id
               v == dsess[s].valor
           IN /\ v > 0
              /\ Len(pagamentos') = Len(pagamentos) + 1
              /\ SubSeq(pagamentos', 1, Len(pagamentos)) = pagamentos
              /\ pagamentos'[Len(pagamentos')].divida_id = d
              /\ pagamentos'[Len(pagamentos')].valor = v
              /\ dividas'[d].valor_pago = dividas[d].valor_pago + v
              /\ dividas'[d].status =
                   IF dividas'[d].valor_pago
                        >= dividas[d].valor_total - ToleranciaQuitacao
                     THEN "Quitado" ELSE "Parcial" ]_vars

(***************************************************************************)
(* Properties of debt creation and batch sync                              *)
(***************************************************************************)
\* C12 as stated: after sync_dividas returns its result, the number of debts
\* added to the store equals the reported created count, wherever the
\* failing items are in the list.
C12_FalhaIsolada ==
  [][ \A data \in Lotes :
        (SyncDividas(data) /\ resposta'.status = 200)
        => Cardinality(DOMAIN dividas' \ DOMAIN dividas)
             = resposta'.corpo[1].created ]_vars

\* The second run of sync_dividas on data, from the state the first run left.
SegundaExecucao(data) == ExecutarLote(InicioLote', data, 1)

RepeticaoSemEfeito(data) ==
  /\ SegundaExecucao(data).created = 0
  /\ SegundaExecucao(data).skipped = Len(data)
  /\ SegundaExecucao(data).errors = <<>>
  /\ SegundaExecucao(data).dividas = dividas'
  /\ SegundaExecucao(data).itens = itens_divida'

TodosComChave(data) == \A k \in 1..Len(data) : data[k].id_local # None

\* C13 as stated: after a run of sync_dividas without errors, a second run
\* with the same list creates nothing, changes nothing and reports
\* created = 0 and skipped = the number of items.
C13_Original ==
  [][ \A data \in Lotes :
        (SyncDividas(data) /\ resposta'.detalhe = "ok"
           /\ Cardinality(IdsSync \ DOMAIN dividas') >= Len(data))
        => RepeticaoSemEfeito(data) ]_vars

\* C13 amended: the same, for a list whose items all carry a local id.
C13_SyncIdempotente ==
  [][ \A data \in Lotes :
        (SyncDividas(data) /\ resposta'.detalhe = "ok" /\ TodosComChave(data))
        => RepeticaoSemEfeito(data) ]_vars

\* A run that skipped both items of a list: the debts with the local ids 1
\* and 2 are in the store and the response counts 0 created, 2 skipped.
C13_Witness ==
  /\ resposta = Resposta(200, "ok",
        Some([created |-> 0, skipped |-> 2, errors |-> <<>>]))
  /\ DividaComIdLocal(dividas, Some(1))
  /\ DividaComIdLocal(dividas, Some(2))

\* C14: at most one debt has a given non-null local id, and a criar_divida
\* or sync_dividas request never adds a debt whose local id a debt of the
\* store already has, nor items without their debt.
C14_IdLocalUnico ==
  /\ [](\A d, e \in DOMAIN dividas :
          (d # e /\ dividas[d].id_local # None)
            => dividas[d].id_local # dividas[e].id_local)
  /\ [](\A d \in DOMAIN itens_divida :
          d \notin DOMAIN dividas => itens_divida[d] = <<>>)
  /\ [][ \A d \in DOMAIN dividas' \ DOMAIN dividas :
           IdLocalLivre(dividas, dividas'[d].id_local) ]_vars

\* A criar_divida request repeated with the local id 1 of a stored debt was
\* answered with an error and the store holds one debt with that id.
C14_Witness ==
  /\ resposta = Resposta(500, "erro", None)
  /\ Cardinality({d \in DOMAIN dividas : dividas[d].id_local = Some(1)}) = 1

\* The discount the claim describes: the percentage of the original value
\* when the percentage is positive, the explicit amount otherwise.
DescontoDeclarado(payload) ==
  IF payload.percentual_desconto > 0
    THEN (SomaSubtotais(payload.itens) * payload.percentual_desconto) \div 100
    ELSE payload.desconto_aplicado

\* The debt row d added by a criar_divida step has the state and the values
\* of payload, with total as its valor_total.
CriadaCom(d, payload, total) ==
  /\ dividas'[d].status = "Pendente"
  /\ dividas'[d].valor_pago = 0
  /\ dividas'[d].valor_original = SomaSubtotais(payload.itens)
  /\ dividas'[d].valor_total = total

\* C15 as stated: a debt is created Pendente, with valor_pago 0,
\* valor_original the sum of the item subtotals and valor_total that sum
\* minus the discount.
C15_Original ==
  [][ \A payload \in DividasNovas :
        CriarDivida(payload)
        => \A d \in DOMAIN dividas' \ DOMAIN dividas :
              CriadaCom(d, payload,
                SomaSubtotais(payload.itens) - DescontoDeclarado(payload)) ]_vars

\* C15 amended: the same, with valor_total never below 0.
C15_DividaCriada ==
  [][ \A payload \in DividasNovas :
        CriarDivida(payload)
        => \A d \in DOMAIN dividas' \ DOMAIN dividas :
              CriadaCom(d, payload,
                Max(0, SomaSubtotais(payload.itens) - DescontoDeclarado(payload)))
    ]_vars

\* A debt just created from items worth 200.00 with a discount of 10%.
C15_Witness ==
  /\ resposta.status = 201
  /\ resposta.corpo[1].percentual_desconto = 10
  /\ resposta.corpo[1].valor_original = 20000
  /\ resposta.corpo[1].valor_total = 18000
  /\ \E d \in DOMAIN dividas : dividas[d] = resposta.corpo[1]

\* The request has no items, or an item whose product id is malformed or
\* not in the catalog.
DividaInvalida(payload) ==
  \/ payload.itens = <<>>
  \/ \E k \in 1..Len(payload.itens) : payload.itens[k].produto_id \notin Produtos

\* C16: a criar_divida request without items, or with an item whose product
\* id is malformed or unknown, is answered with an error and commits no debt
\* and no debt item.
C16_ValidacaoSemRastro ==
  [][ \A payload \in DividasNovas :
        (DividaInvalida(payload) /\ CriarDivida(payload))
        => /\ resposta'.status >= 400
           /\ UNCHANGED <<dividas, itens_divida>> ]_vars

\* A request whose second item names an unknown product was rejected while
\* the store holds debts: none of them has the local id of the request.
C16_Witness ==
  /\ resposta = Resposta(400, "produto_inexistente", None)
  /\ dividas # <<>>
  /\ ~DividaComIdLocal(dividas, Some(2))

(***************************************************************************)
(* Properties of the payment's sale and of rejected payments               *)
(***************************************************************************)
\* A payment request s commits in this step.
PagamentoCommitado(s) == dsess[s].pc = "lido" /\ dsess'[s].pc = "idle"

\* C17 as stated: the commit of a payment is followed by exactly one new
\* sale whose total and payment method are the payment's, not cancelled,
\* referring to the debt, without items, and no stock changes.
C17_VendaSintetica ==
  [][ \A s \in Sessoes :
        PagamentoCommitado(s)
        => /\ \E id \in DOMAIN vendas' \ DOMAIN vendas :
                /\ DOMAIN vendas' = DOMAIN vendas \cup {id}
                /\ vendas'[id].total = dsess[s].valor
                /\ vendas'[id].forma_pagamento = dsess[s].forma_pagamento
                /\ vendas'[id].cancelada = FALSE
                /\ vendas'[id].observacoes = "Pagamento de divida"
                /\ itens_venda'[id] = <<>>
           /\ estoque' = estoque ]_vars

\* C18 as stated: when the sale of a committed payment cannot be written,
\* the payment and the new valor_pago stay committed and the caller gets
\* the result of the payment, not an error.
C18_VendaMelhorEsforco ==
  [][ \A s \in Sessoes :
        (PagamentoCommitado(s) /\ vendas' = vendas)
        => /\ Len(pagamentos') = Len(pagamentos) + 1
           /\ resposta'.status = 200
           /\ resposta'.corpo = Some(dividas'[dsess[s].divida_id]) ]_vars

\* The request pays nothing or less, or names no debt of the store.
PagamentoInvalido(divida_id, payload) ==
  \/ payload.valor <= 0
  \/ ~UuidValido(divida_id)
  \/ divida_id \notin DOMAIN dividas

\* C19: a payment request with a value <= 0, a malformed debt id or the id
\* of no debt is answered with an error and appends no payment, changes no
\* debt and creates no sale.
C19_PagamentoRejeitado ==
  [][ \A s \in Sessoes, divida_id \in IdsPagamento, payload \in PagamentosNovos :
        (PagamentoInvalido(divida_id, payload)
           /\ CarregarDivida(s, divida_id, payload))
        => /\ resposta'.status \in {400, 404}
           /\ UNCHANGED <<pagamentos, dividas, vendas, itens_venda, dsess>> ]_vars

\* A payment of 0 was rejected after another payment had been committed.
C19_Witness ==
  /\ resposta = Resposta(400, "valor_invalido", None)
  /\ Len(pagamentos) = 1
  /\ \E d \in DOMAIN dividas : dividas[d].valor_pago = pagamentos[1].valor

(***************************************************************************)
(* Properties of sale deletion                                             *)
(***************************************************************************)
\* C20: deletar_venda on a sale that is not cancelled answers 400 and leaves
\* the sale and its items; on a cancelled sale it removes the items and the
\* sale; and whenever a sale leaves the table its cancelada was TRUE.
C20_SoExcluiCancelada ==
  /\ [][ \A s \in Sessoes, id \in DOMAIN vendas :
           DeletarVenda(s, id)
           => IF vendas[id].cancelada
                THEN id \notin DOMAIN vendas' /\ itens_venda'[id] = <<>>
                ELSE /\ resposta' = Resposta(400, "nao_anulada", None)
                     /\ UNCHANGED <<vendas, itens_venda>> ]_vars
  /\ [][ \A id \in DOMAIN vendas :
           id \notin DOMAIN vendas' => vendas[id].cancelada ]_vars

\* The sale u1 of one unit of pA was cancelled and deleted while u2 stays.
C20_Witness ==
  /\ resposta = Resposta(200, "deletada", None)
  /\ "u1" \notin DOMAIN vendas
  /\ itens_venda["u1"] = <<>>
  /\ "u2" \in DOMAIN vendas
  /\ estoque["pA"] < Escala


(***************************************************************************)
(* The lines of a sale: services, depletion, tax and frozen cost.          *)
(***************************************************************************)
\* The session is about to process a line of product p.
NaLinha(s, p) ==
  /\ sess[s].pc = "itens"
  /\ sess[s].i <= Len(sess[s].req.itens)
  /\ sess[s].req.itens[sess[s].i].produto_id = p

\* The step processed the session's current line and accepted it with the
\* item row appended.
LinhaAceita(s) ==
  /\ sess'[s].pc = "itens"
  /\ sess'[s].i = sess[s].i + 1
  /\ Len(sess'[s].novos_itens) = Len(sess[s].novos_itens) + 1

\* The step ended the session's request with the insufficient-stock error.
LinhaSemEstoque(s) ==
  /\ sess'[s].pc = "idle"
  /\ resposta' = Resposta(400, "estoque_insuficiente", None)

\* C21: a line of a product classified as a service (pS by its code, pI by
\* its name, pG by its category) is accepted whatever its quantity or weight
\* and the stock on hand, never with the insufficient-stock error, and
\* neither the session nor any commit changes the stock of such a product.
C21_ServicoSemEstoque ==
  [][ \A p \in {"pS", "pI", "pG"} :
        /\ estoque'[p] = estoque[p]
        /\ \A s \in Sessoes :
             (NaLinha(s, p) /\ sess'[s] # sess[s])
               => /\ LinhaAceita(s)
                  /\ p \notin sess'[s].sujo
                  /\ sess'[s].mapa[p] = estoque[p] ]_vars

\* A committed sale carries two units of the service pS while the stock of
\* pS is still 0.
C21_Witness ==
  /\ "u2" \in DOMAIN vendas
  /\ Len(itens_venda["u2"]) = 2
  /\ itens_venda["u2"][2].produto_id = "pS"
  /\ itens_venda["u2"][2].quantidade = 2
  /\ estoque["pS"] = 0

\* C22: the classification follows the product's explicit stock-tracked flag
\* before any heuristic: a line of a product flagged as not stock-tracked is
\* accepted as a service line, without a stock check and without a stock
\* write, also when its code, name and category match no heuristic.
C22_FlagExplicito ==
  [][ \A p \in Produtos :
        ~ControlaEstoque(p)
          => /\ estoque'[p] = estoque[p]
             /\ \A s \in Sessoes :
                  (NaLinha(s, p) /\ sess'[s] # sess[s])
                    => /\ LinhaAceita(s)
                       /\ p \notin sess'[s].sujo ]_vars

\* The depletion the contract prescribes for a line: the weight in kg when
\* the product is sold by weight and the weight is positive, otherwise the
\* whole quantity, at least one unit.
DeltaDevido(p, linha) ==
  IF Catalogo[p].venda_por_peso /\ linha.peso_kg > 0
    THEN linha.peso_kg
    ELSE IF linha.quantidade < 1 THEN Escala ELSE linha.quantidade * Escala

\* C23: a line of a stock-tracked product that is accepted leaves the stock
\* the session holds for the product lower by exactly the prescribed
\* depletion (a quantity of 0 depletes one unit, a product sold by weight
\* with weight 0 depletes by its quantity), and a line is rejected for stock
\* only when the stock is below the prescribed depletion.
C23_BaixaDaLinha ==
  [][ \A s \in Sessoes : \A p \in {"pA", "pB", "pC"} :
        (NaLinha(s, p) /\ sess'[s] # sess[s])
          => LET linha == sess[s].req.itens[sess[s].i]
                 antes == EstoqueAtual(s, p)
             IN \/ /\ LinhaAceita(s)
                   /\ p \in sess'[s].sujo
                   /\ sess'[s].mapa[p] = antes - DeltaDevido(p, linha)
                \/ /\ LinhaSemEstoque(s)
                   /\ antes < DeltaDevido(p, linha) ]_vars

\* A sale of the by-weight product pB with weight 0 and quantity 1 was
\* committed and took the whole unit of pB; the open request's line of pA
\* with quantity 0 has just taken the one unit of pA.
C23_Witness ==
  /\ "u2" \in DOMAIN vendas
  /\ itens_venda["u2"][1].produto_id = "pB"
  /\ itens_venda["u2"][1].peso_kg = 0
  /\ estoque["pB"] = 0
  /\ sess["s1"].pc = "itens"
  /\ sess["s1"].i = 2
  /\ sess["s1"].req.itens[1].produto_id = "pA"
  /\ sess["s1"].req.itens[1].quantidade = 0
  /\ sess["s1"].mapa["pA"] = 0
  /\ estoque["pA"] = Escala

\* C24: the subtotal s of a line includes the tax.  With the sale's
\* apply-tax choice off the stored rate is 0; with a rate r <= 0 the base is
\* s and the tax 0; otherwise base = s / (1 + r/100) and tax = s - base
\* (11500 cents at 15% give base 10000 and tax 1500), never s * r / 100.
C24_IvaPorDentro ==
  [][ \A s \in Sessoes :
        (sess[s].pc = "itens" /\ sess[s].i <= Len(sess[s].req.itens)
           /\ LinhaAceita(s))
          => LET linha == sess[s].req.itens[sess[s].i]
                 item == sess'[s].novos_itens[Len(sess'[s].novos_itens)]
                 r == IF sess[s].req.aplicar_iva
                        THEN Catalogo[linha.produto_id].taxa_iva ELSE 0
                 sub == linha.subtotal
             IN /\ item.subtotal = sub
                /\ item.taxa_iva = r
                /\ r <= 0 => item.base_iva = sub /\ item.valor_iva = 0
                /\ r > 0 => /\ item.base_iva * (100 + r) = sub * 100
                            /\ item.valor_iva = sub - item.base_iva
                            /\ item.valor_iva * 100 # sub * r ]_vars

\* The committed sale u1 holds the line of 11500 cents at 15% with base
\* 10000 and tax 1500.
C24_Witness ==
  /\ "u1" \in DOMAIN vendas
  /\ itens_venda["u1"][1].subtotal = 11500
  /\ itens_venda["u1"][1].taxa_iva = 15
  /\ itens_venda["u1"][1].base_iva = 10000
  /\ itens_venda["u1"][1].valor_iva = 1500

\* C25: the unit cost frozen on a line is the cost the terminal sent with
\* the line when that is above the epsilon, and the product's current cost
\* otherwise: whatever body the processed request was parsed from, the item
\* row carries the cost that body's line prescribes.
C25_CustoCongelado ==
  [][ \A s \in Sessoes : \A corpo \in CorposItens :
        (sess[s].pc = "itens" /\ sess[s].i <= Len(sess[s].req.itens)
           /\ ParseVendaCreate(corpo) = sess[s].req
           /\ LinhaAceita(s))
          => LET enviada == corpo.itens[sess[s].i]
                 item == sess'[s].novos_itens[Len(sess'[s].novos_itens)]
             IN item.preco_custo_unitario =
                  IF enviada.preco_custo_unitario > 0
                    THEN enviada.preco_custo_unitario
                    ELSE CustoAtual(s, enviada.produto_id) ]_vars


(***************************************************************************)
(* The life of a sale: immutability and events.                            *)
(***************************************************************************)
\* C26: the item rows of a sale are written once, with the sale, and are
\* the same after every later step (update, cancellation, replay of the
\* uuid, further sales of the product, debt payments, changes of the
\* catalog cost) until the deletion of the cancelled sale removes them.
C26_ItensImutaveis ==
  [][ \A id \in IdsVenda :
        \/ itens_venda'[id] = itens_venda[id]
        \/ /\ id \notin DOMAIN vendas
           /\ id \in DOMAIN vendas'
           /\ itens_venda[id] = <<>>
        \/ /\ id \in DOMAIN vendas
           /\ vendas[id].cancelada
           /\ id \notin DOMAIN vendas'
           /\ itens_venda'[id] = <<>> ]_vars

\* The sale u1 was updated and cancelled, a payment was registered, the
\* catalog cost of pA went from 700 to 800 and the uuid was replayed: its
\* line of pA still carries the cost 700.
C26_Witness ==
  /\ "u1" \in DOMAIN vendas
  /\ vendas["u1"].total = 999
  /\ vendas["u1"].cancelada
  /\ preco_custo["pA"] = 800
  /\ itens_venda["u1"][1].produto_id = "pA"
  /\ itens_venda["u1"][1].preco_custo_unitario = 700
  /\ "u2" \in DOMAIN vendas
  /\ Len(pagamentos) >= 1
  /\ resposta.detalhe = "existente"
  /\ resposta.corpo[1].id = "u1"

\* C27: once created, a sale row changes only in its cancelled flag: no
\* step changes the total, the discount, the payment method, the customer
\* or the user of a stored sale.
C27_VendaSoCancela ==
  [][ \A id \in DOMAIN vendas \cap DOMAIN vendas' :
        /\ vendas'[id].total = vendas[id].total
        /\ vendas'[id].desconto = vendas[id].desconto
        /\ vendas'[id].forma_pagamento = vendas[id].forma_pagamento
        /\ vendas'[id].cliente_id = vendas[id].cliente_id
        /\ vendas'[id].usuario_id = vendas[id].usuario_id ]_vars

\* The event a step published reports a mutation this very step committed.
EventoAposCommit(e) ==
  CASE e.tipo = "venda.created" ->
         e.id \notin DOMAIN vendas /\ e.id \in DOMAIN vendas'
    [] e.tipo = "venda.cancelled" ->
         e.id \in DOMAIN vendas' /\ vendas'[e.id].cancelada
    [] e.tipo = "venda.deleted" ->
         e.id \in DOMAIN vendas /\ e.id \notin DOMAIN vendas'
    [] OTHER -> FALSE

\* The step ended a request (it wrote the response and the event).
FimDeRequisicao ==
  <<resposta, evento>>' # <<resposta, evento>> \/ vendas' # vendas

MutacaoGravada ==
  LET e == evento[1]
  IN CASE e.tipo = "venda.created" ->
            /\ e.id \in DOMAIN vendas
            /\ resposta = Resposta(200, "criada",
                   Some(Hidratada(e.id, vendas[e.id], itens_venda[e.id])))
       [] e.tipo = "venda.cancelled" ->
            /\ e.id \in DOMAIN vendas
            /\ vendas[e.id].cancelada
            /\ resposta = Resposta(200, "cancelada",
                   Some(Hidratada(e.id, vendas[e.id], itens_venda[e.id])))
       [] e.tipo = "venda.deleted" ->
            /\ e.id \notin DOMAIN vendas
            /\ resposta = Resposta(200, "deletada", None)
       [] OTHER -> FALSE

\* C29: when the broadcast of an event fails, the mutation it was to report
\* stays committed and the caller receives the normal success response.
C29_FalhaDeBroadcastIgnorada ==
  [][ (FimDeRequisicao /\ evento' # None /\ ~evento'[1].entregue)
        => MutacaoGravada' ]_vars

\* The broadcast of the creation of u1 failed: the sale and its two items
\* are stored and the response is the created sale.
C29_Witness ==
  /\ evento = Broadcast("venda.created", "u1", FALSE)
  /\ "u1" \in DOMAIN vendas
  /\ Len(itens_venda["u1"]) = 2
  /\ resposta.status = 200
  /\ resposta.detalhe = "criada"


(***************************************************************************)
(* Batch sync: the aggregate result.                                       *)
(***************************************************************************)
\* C30: a batch sync always ends with the aggregate result, a success
\* response that carries the counters and the per-item errors, and never
\* with a request-level error, also when the store fails.
C30_SyncSempreAgregado ==
  [][ \A data \in Lotes :
        SyncDividas(data)
          => /\ resposta'.status = 200
             /\ resposta'.detalhe \in {"ok", "partial"}
             /\ resposta'.corpo # None ]_vars

\* The positions (from 0) of the items of data that carry no items or name
\* a product that is malformed or not in the catalog.
PosicoesInvalidas(data) ==
  { k - 1 : k \in { j \in 1..Len(data) : DividaInvalida(data[j]) } }

\* C31: the result of a batch sync accounts for every item exactly once:
\* created + skipped + the number of errors is the number of items, the
\* status is "ok" exactly when the error list is empty and "partial"
\* otherwise, and the errors are the failing items in list order, each with
\* its index, its local id and a detail.
C31_ItensContados ==
  [][ \A data \in Lotes :
        (SyncDividas(data) /\ resposta'.status = 200)
          => LET r == resposta'.corpo[1]
             IN /\ r.created + r.skipped + Len(r.errors) = Len(data)
                /\ resposta'.detalhe = IF r.errors = <<>> THEN "ok" ELSE "partial"
                /\ { r.errors[k].index : k \in 1..Len(r.errors) }
                     = PosicoesInvalidas(data)
                /\ \A k \in 1..Len(r.errors) :
                     /\ r.errors[k].id_local = data[r.errors[k].index + 1].id_local
                     /\ r.errors[k].detail # ""
                     /\ k > 1 => r.errors[k - 1].index < r.errors[k].index ]_vars

\* The batch of three items whose second has no items: two created, none
\* skipped and one error at index 1 with the local id 4, status "partial".
C31_Witness ==
  /\ resposta.status = 200
  /\ resposta.detalhe = "partial"
  /\ resposta.corpo[1].created = 2
  /\ resposta.corpo[1].skipped = 0
  /\ resposta.corpo[1].errors =
       << [index |-> 1, id_local |-> Some(4), detail |-> "sem_itens"] >>

\* The outcome of criar_divida for payload, seen in a step: the request is
\* rejected and nothing is stored when it has no items or its item loop
\* rejects a product id; otherwise exactly one debt is added, with the row
\* and the item rows criar_divida builds.
ComoCriarDivida(payload) ==
  LET novas == DOMAIN dividas' \ DOMAIN dividas
  IN IF payload.itens = <<>> \/ ErroItens(payload.itens) # ""
       THEN UNCHANGED <<dividas, itens_divida>>
       ELSE /\ Cardinality(novas) = 1
            /\ \A d \in novas :
                 /\ dividas'[d] = NovaDivida(payload)
                 /\ itens_divida'[d] =
                      [k \in 1..Len(payload.itens) |->
                         NovoItemDivida(d, payload.itens[k])]
            /\ \A d \in DOMAIN dividas :
                 dividas'[d] = dividas[d] /\ itens_divida'[d] = itens_divida[d]

\* No stored debt carries the local id of payload.
IdLocalDesconhecido(payload) ==
  payload.id_local = None \/ ~DividaComIdLocal(dividas, payload.id_local)

\* C32: for a payload whose local id is not yet known, a batch sync of that
\* one payload and criar_divida have the same outcome: the same debt row
\* (original value, discount, total, amount paid, status) and the same item
\* rows, or the rejection of the same payloads (no items, a malformed or
\* unknown product id), which sync reports as its one error.
C32_SyncComoCriar ==
  [][ \A payload \in DividasNovas :
        IdLocalDesconhecido(payload)
          => /\ (SyncDividas(<<payload>>) /\ resposta'.status = 200)
                  => /\ ComoCriarDivida(payload)
                     /\ LET r == resposta'.corpo[1]
                        IN IF payload.itens = <<>> \/ ErroItens(payload.itens) # ""
                             THEN /\ r.created = 0
                                  /\ Len(r.errors) = 1
                                  /\ payload.itens # <<>>
                                       => r.errors[1].detail
                                            = ErroItens(payload.itens)
                             ELSE r.created = 1 /\ r.errors = <<>>
             /\ CriarDivida(payload)
                  => /\ ComoCriarDivida(payload)
                     /\ resposta'.status =
                          IF payload.itens = <<>> \/ ErroItens(payload.itens) # ""
                            THEN 400 ELSE 201 ]_vars

\* The payload with a discount of 10% and no local id was stored once by
\* criar_divida and once by a batch sync: the two debt rows are equal.
C32_Witness ==
  \E d \in IdsDivida \cap DOMAIN dividas, e \in IdsSync \cap DOMAIN dividas :
    /\ dividas[d] = dividas[e]
    /\ dividas[d].id_local = None
    /\ dividas[d].percentual_desconto = 10
    /\ dividas[d].valor_total = 18000
    /\ Len(itens_divida[d]) = 2
    /\ Len(itens_divida[e]) = 2
    /\ itens_divida[e][2].subtotal = itens_divida[d][2].subtotal


(***************************************************************************)
(* Properties of the payment ledger                                        *)
(***************************************************************************)
\* The sum of the values of the payment rows of debt d.
RECURSIVE SomaPagamentosDe(_, _)
SomaPagamentosDe(linhas, d) ==
  IF linhas = <<>> THEN 0
  ELSE (IF Head(linhas).divida_id = d THEN Head(linhas).valor ELSE 0)
       + SomaPagamentosDe(Tail(linhas), d)

\* C33 as stated: in every committed state the valor_pago of every debt is
\* the sum of the values of its payment rows, under any interleaving of
\* concurrent payments, and payment rows are only appended.
C33_PagamentoAtomico ==
  /\ [](\A d \in DOMAIN dividas :
          dividas[d].valor_pago = SomaPagamentosDe(pagamentos, d))
  /\ [][ /\ Len(pagamentos') >= Len(pagamentos)
         /\ SubSeq(pagamentos', 1, Len(pagamentos)) = pagamentos ]_vars

(***************************************************************************)
(* Properties of a sale whose response fails to serialize                  *)
(***************************************************************************)
\* The step is the commit of session s while the validation of the response
\* raises.
CommitSemResposta(s) ==
  /\ ~serial_ok
  /\ sess[s].pc = "itens"
  /\ sess[s].i > Len(sess[s].req.itens)
  /\ CommitVenda(s)

\* The commit of session s stored the sale, its items and the new stock and
\* the caller received an error.
GravadaComErro(s) ==
  LET id == sess[s].venda_uuid
  IN /\ resposta'.status = 500
     /\ id \in DOMAIN vendas'
     /\ vendas'[id] = NovaVenda(sess[s].req)
     /\ itens_venda'[id] = sess[s].novos_itens
     /\ \A p \in Produtos :
          estoque'[p] = IF p \in Escritos(s) THEN sess[s].mapa[p] ELSE estoque[p]
     /\ \E p \in Escritos(s) : estoque'[p] < EstoqueInicial[p]

\* The step is a criar_venda request of session s for the UUID of a
\* committed sale, taken up to the end of its lookup.
Repeticao(s, req) ==
  /\ UuidValido(req.uuid)
  /\ req.uuid \in DOMAIN vendas
  /\ VerificarIdempotencia(s, req)

ManutencaoDeVenda ==
  \E id \in UuidsVenda :
    \/ CancelarVenda("s1", id)
    \/ \E upd \in AtualizacoesHistorico : AtualizarVenda("s1", id, upd)
    \/ DeletarVenda("s1", id)

\* C35: cancelling, un-cancelling, updating or deleting a sale changes the
\* stock of no product (the stock of a cancelled or deleted sale is not given
\* back); the stock changes only in the commit of a criar_venda that stores
\* a new sale, and then it only decreases.
C35_EstoqueSoBaixaNaVenda ==
  [][ /\ ManutencaoDeVenda => estoque' = estoque
      /\ estoque' # estoque
           => /\ CommitVenda("s1")
              /\ DOMAIN vendas' # DOMAIN vendas
              /\ \A p \in Produtos : estoque'[p] <= estoque[p] ]_vars

\* The sale u1 (pA and pB) was cancelled and then deleted: the stock both
\* products had after the sale is still there.
C35_Witness ==
  /\ resposta = Resposta(200, "deletada", None)
  /\ vendas = <<>>
  /\ estoque["pA"] = 0
  /\ estoque["pB"] = EstoqueInicial["pB"] - Meio

(***************************************************************************)
(* Properties of the created event                                         *)
(***************************************************************************)
\* C36 as stated: a replayed criar_venda publishes no created event, and
\* over any sequence of requests at most one created event is published per
\* sale id (so a subscriber receives at most one).
C36_UmEventoPorId ==
  \A id \in UuidsVenda : assinante.criadas[id] <= 1

\* C36 amended: a criar_venda for the UUID of a stored sale publishes no
\* event, whether it answers with the sale or falls through to the 409; the
\* created event of an id is published only by the commit that inserts the
\* row of that id, once per inserted row.
C36_EventoSoDeVendaNova ==
  [][ /\ \A corpo \in CorposHistorico :
           Repeticao("s1", ParseVendaCreate(corpo))
             => /\ evento' # evento => evento' = None
                /\ assinante' = assinante
      /\ (sess["s1"].pc = "insert" /\ sess["s1"].venda_uuid \in DOMAIN vendas
            /\ FlushVenda("s1"))
           => /\ evento' = None
              /\ assinante' = assinante
      /\ \A id \in UuidsVenda :
           ( \/ (evento' = Broadcast("venda.created", id, TRUE) /\ evento' # evento)
             \/ assinante'.criadas[id] # assinante.criadas[id] )
           => /\ CommitVenda("s1")
              /\ id \notin DOMAIN vendas
              /\ id \in DOMAIN vendas'
              /\ assinante'.criadas[id] <= assinante.criadas[id] + 1 ]_vars

\* The sale u2 was created, cancelled, deleted and created again, so the
\* subscriber received its created event twice; the replay answered last
\* added none.
C36_Witness ==
  /\ assinante.criadas["u2"] = 2
  /\ "u2" \in DOMAIN vendas
  /\ resposta.status = 200 /\ resposta.detalhe = "existente"
  /\ resposta.corpo[1].id = "u2"
  /\ evento = None

(***************************************************************************)
(* Properties of the local id in a batch                                   *)
(***************************************************************************)
\* The positions of data whose item has no local id.
SemChave(data) == { k \in 1..Len(data) : data[k].id_local = None }

\* The positions of data whose item repeats the local id of an earlier item.
Repetidas(data) ==
  { k \in 1..Len(data) :
      /\ data[k].id_local # None
      /\ \E j \in 1..(k - 1) : data[j].id_local = data[k].id_local }

\* C37 as stated: an item of a batch without local id is never skipped,
\* every run of the batch stores a new debt for it; of two items of one
\* batch with the same non-null local id only the first becomes a debt and
\* the second is counted as skipped.
C37_SemChaveNuncaPulada ==
  [][ \A data \in LotesChave :
        (SyncDividas(data) /\ resposta'.status = 200)
        => /\ Cardinality({ d \in DOMAIN dividas' \ DOMAIN dividas :
                              dividas'[d].id_local = None })
                = Cardinality(SemChave(data))
           /\ \A k \in Repetidas(data) :
                Cardinality({ d \in DOMAIN dividas' :
                                dividas'[d].id_local = data[k].id_local }) = 1
           /\ resposta'.corpo[1].skipped >= Cardinality(Repetidas(data)) ]_vars

(***************************************************************************)
(* Properties of requests for a sale that is not stored                    *)
(***************************************************************************)
\* C38 as stated: atualizar_venda, cancelar_venda and deletar_venda for an
\* id that no stored sale has report not-found (404) and write nothing.
C38_DesconhecidaNaoEncontrada ==
  [][ \A id \in UuidsVenda \ DOMAIN vendas :
        ( \/ \E upd \in AtualizacoesHistorico : AtualizarVenda("s1", id, upd)
          \/ CancelarVenda("s1", id)
          \/ DeletarVenda("s1", id) )
        => /\ resposta'.status = 404
           /\ UNCHANGED BancoVendas ]_vars
====
